---- MODULE Spec2Model ----
(***************************************************************************)
(* SetOfUniqueArticles (sociaty_newsletter_generator/models.py): a set of  *)
(* articles deduplicated by id, by url and by (normalized title, date),    *)
(* with a body-prefix heuristic that decides which of two articles with    *)
(* the same title and date is kept.                                        *)
(*                                                                         *)
(* Strings are sequences of one-character strings.  The two unordered      *)
(* indices (articles_by_id, articles_by_url) are functions; the index that *)
(* get_articles reads (articles_by_title_date) is a sequence of            *)
(* <<key, article>> entries in the insertion order of a Python dict.       *)
(***************************************************************************)
EXTENDS Integers, Sequences, FiniteSets, TLC

\* ------------------------------------------------------------------------
\* Bounds of the model
\* ------------------------------------------------------------------------
\* the "keys" source hands in article ids 1..NumIds; NoId is `id is None`
NumIds == 1
\* the "order" source hands in article urls 1..NumUrls
NumUrls == 4
\* limit is called with n in 0..MaxLimit
MaxLimit == 3
\* a constructor is handed a list of at most MaxSeed articles
MaxSeed == 2

NoId == 0

\* ------------------------------------------------------------------------
\* Python string and dict primitives used by the class
\* ------------------------------------------------------------------------
Whitespace == {" "}

\* str.lower() on one character
LowerChar(c) ==
    CASE c = "A" -> "a"
      [] c = "B" -> "b"
      [] c = "H" -> "h"
      [] c = "T" -> "t"
      [] OTHER -> c

Lower(s) == [i \in 1..Len(s) |-> LowerChar(s[i])]

RECURSIVE LStrip(_)
LStrip(s) ==
    IF s # <<>> /\ Head(s) \in Whitespace THEN LStrip(Tail(s)) ELSE s

RECURSIVE RStrip(_)
RStrip(s) ==
    IF s # <<>> /\ s[Len(s)] \in Whitespace
    THEN RStrip(SubSeq(s, 1, Len(s) - 1))
    ELSE s

\* str.strip()
Strip(s) == RStrip(LStrip(s))

\* str.startswith(prefix)
StartsWith(s, prefix) ==
    /\ Len(prefix) <= Len(s)
    /\ SubSeq(s, 1, Len(prefix)) = prefix

\* s[:n] for 0 <= n
SliceTo(s, n) == SubSeq(s, 1, IF n < Len(s) THEN n ELSE Len(s))

\* a prefix length rounded up instead of down
FloorNinetyRoundUp(n) == (n * 9 + 9) \div 10

\* a prefix with no tolerance: the whole existing body
FloorNinetyWhole(n) == n

\* floor(n * 0.9): for every n in 0..1000 (the longest body an Article
\* holds) the float product rounds down to (9 * n) div 10
FloorNinety(n) == (n * 9) \div 10

\* Insertion-ordered dict as a sequence of <<key, value>> entries
DictKeys(d) == {d[i][1] : i \in 1..Len(d)}
DictValues(d) == [i \in 1..Len(d) |-> d[i][2]]
DictIndex(d, k) == CHOOSE i \in 1..Len(d) : d[i][1] = k
DictGet(d, k) == d[DictIndex(d, k)][2]
\* d[k] = v : an existing key keeps its position, a new key goes last
DictSet(d, k, v) ==
    IF k \in DictKeys(d)
    THEN [i \in 1..Len(d) |-> IF d[i][1] = k THEN <<k, v>> ELSE d[i]]
    ELSE Append(d, <<k, v>>)
\* d.pop(k, None)
DictPop(d, k) == SelectSeq(d, LAMBDA e : e[1] # k)

\* Unordered dict as a function
MapSet(m, k, v) == [x \in (DOMAIN m) \cup {k} |-> IF x = k THEN v ELSE m[x]]
MapPop(m, k) == [x \in (DOMAIN m) \ {k} |-> m[x]]
MapValues(m) == {m[x] : x \in DOMAIN m}
EmptyMap == [x \in {} |-> x]

\* ------------------------------------------------------------------------
\* Article records handed to the set
\* ------------------------------------------------------------------------
\* Article.date is a datetime <<day, hour>>; a plain date is <<day>>
Datetime(day, hour) == <<day, hour>>

\* bodies: the empty default, short bodies with case and whitespace
\* variants, and bodies long enough for floor(0.9 * len) < len - 1
Bodies ==
    { <<>>,
      <<"a">>,
      <<"a", "b">>,
      <<"A", "B", " ">>,
      <<"a", "b", "c">>,
      <<"b">>,
      <<"h","e","l","l","o"," ","w","o","r","l","d">>,
      <<"H","e","l","l","o"," ","w","o","r","l","d",".">>,
      <<"h","e","l","l","o"," ","w","o","r","k">> }

ShortBodies == { <<"a", "b">>, <<"a", "b", "c">> }

\* What an article source hands to one set.  Each source is a product of
\* small attribute sets:
\*   "bodies"  one title+date key in two spellings of the title, every body
\*   "keys"    ids up to NumIds, three urls, two days in three datetimes,
\*             two bodies
\*   "order"   three titles, NumUrls urls, no ids, two bodies
\*   "small"   two titles, two urls, one id, one body
\*   "swap"    two titles, two urls, no ids, two bodies
Sources == {"bodies", "keys", "order"}

SourceArticles(src) ==
    CASE src = "bodies" ->
           [id : {NoId, 1}, url : {1, 2},
            title : { <<"T">>, <<" ", "t">> },
            date : {Datetime(1, 0)},
            body : Bodies]
      [] src = "keys" ->
           [id : 0..NumIds, url : {1, 2, 3},
            title : { <<"T">> },
            date : {Datetime(1, 0), Datetime(1, 9), Datetime(2, 0)},
            body : ShortBodies]
      [] src = "order" ->
           [id : {NoId}, url : 1..NumUrls,
            title : { <<"T">>, <<"b">>, <<"c">> },
            date : {Datetime(1, 0)},
            body : ShortBodies]
      [] src = "small" ->
           [id : {NoId, 1}, url : {1, 2},
            title : { <<"T">>, <<"b">> },
            date : {Datetime(1, 0)},
            body : { <<"a", "b">> }]
      [] src = "swap" ->
           [id : {NoId}, url : {1, 2},
            title : { <<"T">>, <<"b">> },
            date : {Datetime(1, 0)},
            body : ShortBodies]

\* ------------------------------------------------------------------------
\* SetOfUniqueArticles
\* ------------------------------------------------------------------------
VARIABLES
    articles_by_id,          \* self.articles_by_id
    articles_by_url,         \* self.articles_by_url
    articles_by_title_date,  \* self.articles_by_title_date
    source,                  \* the article source feeding this set
    article,                 \* argument of the last add_article call
    before,                  \* the three dicts when that call started
    outcome,                 \* the return path that call took
    target,                  \* the instance that call was made on
    result,                  \* what the last read operation returned
    copy,                    \* the instance the last limit call returned
    copy_before,             \* that instance's dicts when the last call started
    input_data,              \* the argument of a constructor
    fed                      \* how many of its articles have been added

indices == <<articles_by_id, articles_by_url, articles_by_title_date>>
api_vars == <<target, result, copy, copy_before>>
seed_vars == <<input_data, fed>>
vars == <<articles_by_id, articles_by_url, articles_by_title_date,
          source, article, before, outcome,
          target, result, copy, copy_before, input_data, fed>>

_normalize_string(s) == Lower(Strip(s))

_normalize_date(d) == IF Len(d) = 2 THEN <<d[1]>> ELSE d

_generate_title_date_key(a) ==
    <<_normalize_string(a.title), _normalize_date(a.date)>>

\* the three dicts of one instance, as a record
Self == [articles_by_id |-> articles_by_id,
         articles_by_url |-> articles_by_url,
         articles_by_title_date |-> articles_by_title_date]

_add_article_to_all_dicts(self, a, title_date_key) ==
    [articles_by_id |->
         IF a.id # NoId THEN MapSet(self.articles_by_id, a.id, a)
                        ELSE self.articles_by_id,
     articles_by_url |-> MapSet(self.articles_by_url, a.url, a),
     articles_by_title_date |->
         DictSet(self.articles_by_title_date, title_date_key, a)]

\* a removal that leaves the article in the url index
_remove_article_keeps_url(self, a) ==
    [articles_by_id |->
         IF a.id # NoId THEN MapPop(self.articles_by_id, a.id)
                        ELSE self.articles_by_id,
     articles_by_url |-> self.articles_by_url,
     articles_by_title_date |->
         DictPop(self.articles_by_title_date, _generate_title_date_key(a))]

_remove_article_from_all_dicts(self, a) ==
    [articles_by_id |->
         IF a.id # NoId THEN MapPop(self.articles_by_id, a.id)
                        ELSE self.articles_by_id,
     articles_by_url |-> MapPop(self.articles_by_url, a.url),
     articles_by_title_date |->
         DictPop(self.articles_by_title_date, _generate_title_date_key(a))]

\* an insert with no id check
IdExistsNever(self, a) == FALSE

\* `if article.id and str(article.id) in self.articles_by_id`
IdExists(self, a) == a.id # NoId /\ a.id \in DOMAIN self.articles_by_id

\* an insert with no url check
UrlExistsNever(self, a) == FALSE

\* `if article.url in self.articles_by_url`
UrlExists(self, a) == a.url \in DOMAIN self.articles_by_url

\* a replacement by any record with another body
PrefixDominatesAnyOther(normalized_body, existing_body) ==
    normalized_body # existing_body

\* a replacement also by a record with the same body
PrefixDominatesOrEqual(normalized_body, existing_body) ==
    StartsWith(normalized_body,
               SliceTo(existing_body, FloorNinety(Len(existing_body))))

\* a symmetric prefix check
PrefixDominatesEitherWay(normalized_body, existing_body) ==
    /\ normalized_body # existing_body
    /\ \/ StartsWith(normalized_body,
                     SliceTo(existing_body, FloorNinety(Len(existing_body))))
       \/ StartsWith(existing_body,
                     SliceTo(normalized_body, FloorNinety(Len(normalized_body))))

\* the condition of the `if` that replaces the existing article
PrefixDominates(normalized_body, existing_body) ==
    /\ normalized_body # existing_body
    /\ StartsWith(normalized_body,
                  SliceTo(existing_body, FloorNinety(Len(existing_body))))

\* self after the call, paired with the return path the call took
Returned(self, path) == [self |-> self, path |-> path]

\* a plain list: every record handed in is appended, with no check
add_article_appending(self, a) ==
    Returned([self EXCEPT !.articles_by_title_date =
                  Append(@, <<_generate_title_date_key(a), a>>)],
             "inserted")

add_article(self, a) ==
    IF IdExists(self, a) THEN Returned(self, "id_exists")
    ELSE IF UrlExists(self, a) THEN Returned(self, "url_exists")
    ELSE
      LET title_date_key == _generate_title_date_key(a)
          normalized_body == _normalize_string(a.body)
      IN  IF title_date_key \notin DictKeys(self.articles_by_title_date)
          THEN Returned(_add_article_to_all_dicts(self, a, title_date_key),
                        "inserted")
          ELSE
            LET existing_article ==
                    DictGet(self.articles_by_title_date, title_date_key)
                existing_body == _normalize_string(existing_article.body)
            IN  IF PrefixDominates(normalized_body, existing_body)
                THEN Returned(
                       _add_article_to_all_dicts(
                         _remove_article_from_all_dicts(self, existing_article),
                         a, title_date_key),
                       "replaced")
                ELSE Returned(self, "kept_existing")

get_articles(self) == DictValues(self.articles_by_title_date)

\* an emptiness test on the id index
__bool__by_id(self) == DOMAIN self.articles_by_id # {}

__bool__(self) == self.articles_by_title_date # <<>>

__len__(self) == Len(self.articles_by_title_date)

\* the iterator of a set yields the list get_articles returns
__iter__(self) == get_articles(self)

\* the dicts __init__ creates
EmptySet == [articles_by_id |-> EmptyMap,
             articles_by_url |-> EmptyMap,
             articles_by_title_date |-> <<>>]

\* input_data: None, one Article or a list of Articles
None == [kind |-> "None"]
OneArticle(a) == [kind |-> "Article", value |-> a]
List(seq) == [kind |-> "list", value |-> seq]

\* `for article in input_data: self.add_article(article)`
RECURSIVE AddEach(_, _)
AddEach(self, list) ==
    IF list = <<>> THEN self
    ELSE AddEach(add_article(self, Head(list)).self, Tail(list))

\* a loop that adds the articles last to first
RECURSIVE AddEachReversed(_, _)
AddEachReversed(self, list) ==
    IF list = <<>> THEN self
    ELSE add_article(AddEachReversed(self, Tail(list)), Head(list)).self

\* a constructor that adds the articles last to first
__init__reversed(data) ==
    IF data = None \/ data = List(<<>>) THEN EmptySet
    ELSE AddEachReversed(EmptySet,
                 IF data.kind = "Article" THEN <<data.value>> ELSE data.value)

\* the dicts of SetOfUniqueArticles(input_data)
__init__(data) ==
    IF data = None \/ data = List(<<>>) THEN EmptySet
    ELSE AddEach(EmptySet,
                 IF data.kind = "Article" THEN <<data.value>> ELSE data.value)

\* what limit returns: the instance it was called on, or a new instance,
\* with the dicts that instance has after the call
SameInstance(n, dicts) == [object |-> "self", n |-> n, dicts |-> dicts]
NewInstance(n, dicts) == [object |-> "new", n |-> n, dicts |-> dicts]

\* a limit that skips the first n articles
limit_skipping(self, n) ==
    NewInstance(n, __init__(List(SubSeq(get_articles(self), n + 1,
                                        Len(get_articles(self))))))

\* a limit that returns the set it is called on
limit_returning_self(self, n) == SameInstance(n, self)

\* a limit that truncates the set it is called on and returns it
limit_in_place(self, n) ==
    SameInstance(n, __init__(List(SliceTo(get_articles(self), n))))

limit(self, n) ==
    NewInstance(n, __init__(List(SliceTo(get_articles(self), n))))

NoArticle == [id |-> NoId, url |-> 0, title |-> <<>>, date |-> <<>>, body |-> <<>>]
NoCopy == [object |-> "None", n |-> 0, dicts |-> EmptySet]

\* SetOfUniqueArticles() with no input data, and nothing called yet
Constructed ==
    /\ articles_by_id = EmptyMap
    /\ articles_by_url = EmptyMap
    /\ articles_by_title_date = <<>>
    /\ article = NoArticle
    /\ before = Self
    /\ outcome = "constructed"
    /\ target = "self"
    /\ result = None
    /\ copy = NoCopy
    /\ copy_before = NoCopy.dicts
    /\ fed = 0

Init ==
    /\ Constructed
    /\ source \in Sources
    /\ input_data = None

\* one call self.add_article(a)
AddArticle(a) ==
    LET call == add_article(Self, a)
    IN  /\ articles_by_id' = call.self.articles_by_id
        /\ articles_by_url' = call.self.articles_by_url
        /\ articles_by_title_date' = call.self.articles_by_title_date
        /\ article' = a
        /\ before' = Self
        /\ outcome' = call.path
        /\ UNCHANGED source

Next ==
    \E a \in SourceArticles(source) :
        AddArticle(a) /\ UNCHANGED api_vars /\ UNCHANGED seed_vars

Spec == Init /\ [][Next]_vars

\* ------------------------------------------------------------------------
\* A set, the instance limit returns, and the read operations
\* ------------------------------------------------------------------------
ApiSources == {"small", "swap"}

InitApi ==
    /\ Constructed
    /\ source \in ApiSources
    /\ input_data = None

\* the dicts of the instance `copy` refers to
CopyDicts == IF copy.object = "self" THEN Self ELSE copy.dicts

\* self.add_article(a), seen from both references
AddToSelf(a) ==
    /\ AddArticle(a)
    /\ target' = "self"
    /\ result' = None
    /\ copy_before' = CopyDicts
    /\ copy' = IF copy.object = "self"
               THEN [copy EXCEPT !.dicts = add_article(Self, a).self]
               ELSE copy
    /\ UNCHANGED seed_vars

\* copy = self.limit(n)
Limit(n) ==
    LET returned == limit(Self, n)
    IN  /\ copy' = returned
        /\ articles_by_id' = IF returned.object = "self"
                             THEN returned.dicts.articles_by_id
                             ELSE articles_by_id
        /\ articles_by_url' = IF returned.object = "self"
                              THEN returned.dicts.articles_by_url
                              ELSE articles_by_url
        /\ articles_by_title_date' =
               IF returned.object = "self"
               THEN returned.dicts.articles_by_title_date
               ELSE articles_by_title_date
        /\ article' = NoArticle
        /\ before' = Self
        /\ copy_before' = CopyDicts
        /\ outcome' = "limit"
        /\ target' = "self"
        /\ result' = None
        /\ UNCHANGED <<source, input_data, fed>>

\* copy.add_article(a)
AddArticleToCopy(a) ==
    LET call == add_article(CopyDicts, a)
    IN  /\ copy.object # "None"
        /\ copy' = [copy EXCEPT !.dicts = call.self]
        /\ articles_by_id' = IF copy.object = "self"
                             THEN call.self.articles_by_id
                             ELSE articles_by_id
        /\ articles_by_url' = IF copy.object = "self"
                              THEN call.self.articles_by_url
                              ELSE articles_by_url
        /\ articles_by_title_date' =
               IF copy.object = "self"
               THEN call.self.articles_by_title_date
               ELSE articles_by_title_date
        /\ article' = a
        /\ before' = Self
        /\ copy_before' = CopyDicts
        /\ outcome' = call.path
        /\ target' = "copy"
        /\ result' = None
        /\ UNCHANGED <<source, input_data, fed>>

\* a read operation on self that returns `value`
Read(name, value) ==
    /\ result' = value
    /\ outcome' = name
    /\ target' = "self"
    /\ article' = NoArticle
    /\ before' = Self
    /\ copy_before' = CopyDicts
    /\ UNCHANGED <<indices, source, copy, input_data, fed>>

GetArticles == Read("get_articles", get_articles(Self))

\* list(iter(self)); a second iteration in a row is labelled as such
Iterate ==
    Read(IF outcome \in {"__iter__", "__iter__ again"}
         THEN "__iter__ again" ELSE "__iter__",
         __iter__(Self))

Length == Read("__len__", __len__(Self))

Bool == Read("__bool__", __bool__(Self))

NextApi ==
    \/ \E a \in SourceArticles(source) : AddToSelf(a)
    \/ \E n \in 0..MaxLimit : Limit(n)
    \/ \E a \in SourceArticles(source) : AddArticleToCopy(a)
    \/ GetArticles
    \/ Iterate
    \/ Length
    \/ Bool

SpecApi == InitApi /\ [][NextApi]_vars

\* ------------------------------------------------------------------------
\* A constructor call next to the same articles added one by one
\* ------------------------------------------------------------------------
SeedSources == {"keys", "order", "small"}

\* the lists of at most MaxSeed articles of a source
Lists(src) ==
    UNION {[1..k -> SourceArticles(src)] : k \in 0..MaxSeed}

InputList == IF input_data.kind = "list" THEN input_data.value
             ELSE IF input_data.kind = "Article" THEN <<input_data.value>>
             ELSE <<>>

InitSeed ==
    /\ Constructed
    /\ source \in SeedSources
    /\ input_data \in {None}
                      \cup {OneArticle(a) : a \in SourceArticles(source)}
                      \cup {List(l) : l \in Lists(source)}

\* the empty set is handed the next article of the input
AddNext ==
    /\ fed < Len(InputList)
    /\ AddArticle(InputList[fed + 1])
    /\ fed' = fed + 1
    /\ UNCHANGED <<api_vars, input_data>>

NextSeed == AddNext

SpecSeed == InitSeed /\ [][NextSeed]_vars

\* ------------------------------------------------------------------------
\* Vocabulary of the properties
\* ------------------------------------------------------------------------
Range(seq) == {seq[i] : i \in 1..Len(seq)}

\* the records get_articles returns
Retained(self) == Range(get_articles(self))

KeyOf(a) == _generate_title_date_key(a)
NormBody(a) == _normalize_string(a.body)

\* the first floor(0.9 * len) characters of a string
NinetyPercentPrefix(s) == SubSeq(s, 1, (9 * Len(s)) \div 10)

\* an add_article call has been made
Called == outcome # "constructed"

\* the last call's record clears the id check and the url check
FreshId ==
    article.id = NoId \/ \A r \in Retained(before) : r.id # article.id
FreshUrl == \A r \in Retained(before) : r.url # article.url

\* the records retained before the last call under the new record's key
Colliding == {r \in Retained(before) : KeyOf(r) = KeyOf(article)}

\* ------------------------------------------------------------------------
\* Properties
\* ------------------------------------------------------------------------

\* C1: no two records returned by get_articles share a non-empty id, a url
\* or a (lowercase-trimmed title, calendar date) key.
C1_UniqueKeys ==
    LET arts == get_articles(Self)
    IN  \A i, j \in 1..Len(arts) :
          i # j =>
            /\ arts[i].id = NoId \/ arts[i].id # arts[j].id
            /\ arts[i].url # arts[j].url
            /\ KeyOf(arts[i]) # KeyOf(arts[j])

\* C1 case: three records are retained and the last call handed in a
\* record with the url of one of them and the title+date key of another.
C1_Witness ==
    /\ Len(get_articles(Self)) = 3
    /\ outcome = "url_exists"
    /\ \E r \in Retained(before) :
         r.url = article.url /\ KeyOf(r) # KeyOf(article)

\* C2: the url index and the title+date index hold the same records, each
\* under its own url and its own key; the id index holds exactly the
\* retained records that have an id; a replaced record is in no index.
C2_IndicesConsistent ==
    /\ MapValues(articles_by_url) = Retained(Self)
    /\ Cardinality(DOMAIN articles_by_url) = Len(articles_by_title_date)
    /\ \A u \in DOMAIN articles_by_url : articles_by_url[u].url = u
    /\ \A i \in 1..Len(articles_by_title_date) :
         articles_by_title_date[i][1] = KeyOf(articles_by_title_date[i][2])
    /\ MapValues(articles_by_id) = {r \in Retained(Self) : r.id # NoId}
    /\ \A k \in DOMAIN articles_by_id : articles_by_id[k].id = k
    /\ outcome = "replaced" =>
         \A e \in Colliding :
            e \notin Retained(Self) \cup MapValues(articles_by_url)
                                    \cup MapValues(articles_by_id)

\* C2 case: a record with an id has just been replaced while another
\* record stays retained.
C2_Witness ==
    /\ outcome = "replaced"
    /\ Len(articles_by_title_date) >= 2
    /\ \E e \in Colliding : e.id # NoId

C4_ReplacementKeepsOrder ==
    ( /\ outcome = "replaced"
      /\ Len(before.articles_by_title_date) = 3
      /\ KeyOf(get_articles(before)[2]) = KeyOf(article) )
    => [i \in 1..3 |-> KeyOf(get_articles(Self)[i])]
         = [i \in 1..3 |-> KeyOf(get_articles(before)[i])]

\* C5: a record whose non-empty id is the id of a retained record leaves
\* the three indices as they are, whatever its other fields; a record with
\* no id is never discarded by the id check.
C5_IdMatchIsNoOp ==
    Called =>
      /\ (article.id # NoId /\ \E r \in Retained(before) : r.id = article.id)
           => Self = before
      /\ article.id = NoId => outcome # "id_exists"
      /\ (article.id = NoId /\ FreshUrl /\ Colliding = {})
           => article \in Retained(Self)

\* C5 case: the record has the id of a retained record, a url of its own,
\* the same title+date key and a body that would prefix-dominate it.
C5_Witness ==
    /\ Called /\ FreshUrl
    /\ \E e \in Colliding :
         /\ e.id = article.id /\ e.id # NoId
         /\ NormBody(article) # NormBody(e)
         /\ StartsWith(NormBody(article), NinetyPercentPrefix(NormBody(e)))
    /\ Self = before

\* C6: a record whose url is the url of a retained record leaves the three
\* indices as they are, whatever its other fields.
C6_UrlMatchIsNoOp ==
    (Called /\ ~ FreshUrl) => Self = before

\* C6 case: the record has the url and the title+date key of a retained
\* record, an id of its own and a body that would prefix-dominate it.
C6_Witness ==
    /\ Called /\ FreshId
    /\ \E e \in Colliding :
         /\ e.url = article.url
         /\ NormBody(article) # NormBody(e)
         /\ StartsWith(NormBody(article), NinetyPercentPrefix(NormBody(e)))
    /\ Self = before

C8_EqualBodyIsNoOp ==
    Called =>
      \A e \in Colliding :
        NormBody(article) = NormBody(e)
        => /\ Self = before
           /\ e \in Retained(Self)
           /\ __len__(Self) = __len__(before)

\* C8 case: the two bodies differ in case and whitespace only, and the new
\* record has another url, another id and another spelling of the title.
C8_Witness ==
    /\ Called /\ FreshId /\ FreshUrl
    /\ \E e \in Colliding :
         /\ NormBody(article) = NormBody(e)
         /\ article.body # e.body
         /\ article.title # e.title
         /\ article.id # NoId /\ e.id # article.id
         /\ e \in Retained(Self)

\* C9: of two records with the same title and date and different bodies,
\* inserted one after the other, the one with the longer body is retained.
C9_LongerBodyRetained ==
    (Called /\ FreshId /\ FreshUrl) =>
      \A e \in Colliding :
        LET kept == DictGet(articles_by_title_date, KeyOf(article))
        IN  /\ Len(NormBody(article)) > Len(NormBody(e)) => kept = article
            /\ Len(NormBody(article)) < Len(NormBody(e)) => kept = e

\* C10: the prefix check is one-directional: when E's normalized body
\* starts with the 90% prefix of the new body, but the new body does not
\* start with the 90% prefix of E's body, the new record is discarded.
C10_PrefixCheckOneWay ==
    Called =>
      \A e \in Colliding :
        ( /\ StartsWith(NormBody(e), NinetyPercentPrefix(NormBody(article)))
          /\ ~ StartsWith(NormBody(article),
                          NinetyPercentPrefix(NormBody(e))) )
        => /\ Self = before
           /\ e \in Retained(Self)

\* C10 case: the new body is a non-empty prefix of E's body, shorter by two
\* characters or more, and the record clears the id and url checks.
C10_Witness ==
    /\ Called /\ FreshId /\ FreshUrl
    /\ \E e \in Colliding :
         /\ NormBody(article) # <<>>
         /\ StartsWith(NormBody(e), NormBody(article))
         /\ Len(NormBody(article)) + 2 <= Len(NormBody(e))
         /\ ~ StartsWith(NormBody(article), NinetyPercentPrefix(NormBody(e)))
         /\ e \in Retained(Self)

\* C13: add_article is idempotent: handing the same record in a second
\* time leaves the three indices, the size and the retrieval order as they
\* are after the first call; the same record twice into an empty set gives
\* size 1.
C13_AddIsIdempotent ==
    Called =>
      LET again == add_article(Self, article).self
      IN  /\ again = Self
          /\ get_articles(again) = get_articles(Self)
          /\ __len__(again) = __len__(Self)
          /\ __len__(before) = 0 => __len__(again) = 1

\* C13 case: a record was inserted into the empty set and the call just
\* made handed the same record in again.
C13_Witness ==
    /\ Called
    /\ before = Self
    /\ get_articles(Self) = <<article>>
    /\ outcome \in {"id_exists", "url_exists"}

\* C15: len(set) is the number of records get_articles returns, the set is
\* reported empty exactly when that number is zero, and a set constructed
\* with no seed has size 0, is reported empty and returns nothing.
C15_SizeAndEmptiness ==
    /\ __len__(Self) = Len(get_articles(Self))
    /\ __len__(Self) = Cardinality(Retained(Self))
    /\ __bool__(Self) <=> Len(get_articles(Self)) # 0
    /\ outcome = "constructed" =>
         /\ __len__(Self) = 0
         /\ ~ __bool__(Self)
         /\ get_articles(Self) = <<>>

\* C15 case: three records are retained and none of them has an id.
C15_Witness ==
    /\ __len__(Self) = 3
    /\ __bool__(Self)
    /\ \A r \in Retained(Self) : r.id = NoId

\* C17: an add_article call changes the size by 0 or by +1; it grows by
\* one exactly when the record's non-empty id, its url and its title+date
\* key are all absent from the indices, and stays the same on every
\* discard and on every replacement.
C17_SizeGrowsByAtMostOne ==
    Called =>
      LET grown == __len__(Self) - __len__(before)
          absent ==
            /\ article.id = NoId
                 \/ article.id \notin DOMAIN before.articles_by_id
            /\ article.url \notin DOMAIN before.articles_by_url
            /\ KeyOf(article) \notin DictKeys(before.articles_by_title_date)
      IN  /\ grown \in {0, 1}
          /\ grown = 1 <=> absent
          /\ outcome \in {"id_exists", "url_exists", "kept_existing",
                          "replaced"} => grown = 0

\* C17 case: a replacement in a set of three records.
C17_Witness ==
    /\ outcome = "replaced"
    /\ __len__(before) = 3
    /\ __len__(Self) = 3

C19_KeysStayUrlsLeave ==
    /\ DictKeys(before.articles_by_title_date)
         \subseteq DictKeys(articles_by_title_date)
    /\ outcome = "replaced" =>
         \A e \in Colliding :
           /\ e.url \notin DOMAIN articles_by_url
           /\ e.id # NoId => e.id \notin DOMAIN articles_by_id
           /\ \A x \in SourceArticles(source) :
                ( /\ x.url = e.url
                  /\ x.id = NoId \/ x.id \notin DOMAIN articles_by_id
                  /\ KeyOf(x) \notin DictKeys(articles_by_title_date) )
                => /\ add_article(Self, x).path = "inserted"
                   /\ x \in Retained(add_article(Self, x).self)

\* C19 case: a record with an id has been replaced, and the source holds a
\* record with its url and a title+date key the set does not have.
C19_Witness ==
    /\ outcome = "replaced"
    /\ \E e \in Colliding :
         /\ e.id # NoId
         /\ \E x \in SourceArticles(source) :
              /\ x.url = e.url
              /\ x.id = e.id
              /\ KeyOf(x) \notin DictKeys(articles_by_title_date)

\* C11: limit(n) returns a set whose articles are exactly the first
\* min(n, size) articles of the set it was called on, in the same order.
Min(a, b) == IF a < b THEN a ELSE b

C11_LimitTakesFirstN ==
    outcome = "limit" =>
        /\ get_articles(copy.dicts)
             = SubSeq(get_articles(before), 1,
                      Min(copy.n, __len__(before)))
        /\ __len__(copy.dicts) = Min(copy.n, __len__(before))

C11_Witness ==
    /\ outcome = "limit"
    /\ copy.n = 1
    /\ __len__(before) = 2
    /\ get_articles(copy.dicts) = <<get_articles(before)[1]>>

\* C12: the set limit(n) returned is independent of the original and is
\* not capped at n: add_article on the copy leaves the original's three
\* dicts unchanged, add_article on the original leaves the copy's dicts
\* unchanged, and an article whose id, url and title+date key are all new
\* to the copy makes the copy one larger, beyond n when it held n.
AddPaths == {"id_exists", "url_exists", "inserted", "replaced", "kept_existing"}

FreshToCopy ==
    /\ ~IdExists(copy_before, article)
    /\ ~UrlExists(copy_before, article)
    /\ KeyOf(article) \notin DictKeys(copy_before.articles_by_title_date)

C12_CopyIsIndependent ==
    (copy.object # "None" /\ outcome \in AddPaths) =>
        /\ target = "copy" => Self = before
        /\ target = "self" => copy.dicts = copy_before
        /\ (target = "copy" /\ FreshToCopy) =>
              /\ __len__(copy.dicts) = __len__(copy_before) + 1
              /\ __len__(copy_before) = copy.n => __len__(copy.dicts) > copy.n

C12_Witness ==
    /\ target = "copy"
    /\ outcome = "inserted"
    /\ FreshToCopy
    /\ copy.n = 1
    /\ __len__(copy_before) = 1
    /\ __len__(copy.dicts) = 2
    /\ __len__(Self) = 2
    /\ get_articles(copy.dicts) # get_articles(Self)

\* C16: get_articles, iteration, len, bool and limit leave the three dicts
\* of the set unchanged, and iterating twice in a row yields, both times,
\* the list get_articles returns.
ReadOps == {"get_articles", "__iter__", "__iter__ again", "__len__",
            "__bool__", "limit"}

C16_ReadsDoNotMutate ==
    outcome \in ReadOps =>
        /\ Self = before
        /\ outcome \in {"get_articles", "__iter__", "__iter__ again"} =>
              /\ result = get_articles(Self)
              /\ result = DictValues(before.articles_by_title_date)

C16_Witness ==
    /\ outcome = "__iter__ again"
    /\ Len(result) = 2
    /\ result = get_articles(Self)
    /\ copy.object = "new"
    /\ copy.n = 1

\* C14: SetOfUniqueArticles(list) has the same three dicts, and so the same
\* retrieval order, as an empty set after add_article on each article of
\* the list in input order; a single article gives what the one-element
\* list gives; None and the empty list give the empty set.
C14_ConstructorAddsInOrder ==
    /\ fed = Len(InputList) =>
          /\ __init__(input_data) = Self
          /\ get_articles(__init__(input_data)) = get_articles(Self)
    /\ input_data.kind = "Article" =>
          __init__(input_data) = __init__(List(<<input_data.value>>))
    /\ (input_data = None \/ input_data = List(<<>>)) =>
          /\ __init__(input_data) = EmptySet
          /\ Self = EmptySet

C14_Witness ==
    /\ input_data.kind = "list"
    /\ Len(InputList) = 2
    /\ fed = 2
    /\ get_articles(Self) = InputList
    /\ __init__(input_data) = Self

====
